---- MODULE Spec2Model ----
(***************************************************************************)
(* Chart data assembly of the PSO character-stat pages: the line-graph     *)
(* assembler (assembleLineGraphObject and its helpers) and the radar-chart *)
(* assembler (assembleRadarChartObject and its helpers).                   *)
(*                                                                         *)
(* Numbers.  Levels and stat values are integers.  A JavaScript quotient   *)
(* is kept as an exact fraction in lowest terms, or as one of the IEEE     *)
(* specials NaN / Infinity / -Infinity that a division by zero produces;   *)
(* the rounding of a double is not modelled.                               *)
(*                                                                         *)
(* Errors.  A thrown error ends the call: the outcome of a call is either  *)
(* [status |-> "ok", chart |-> ...] or [status |-> "error", error |-> e].  *)
(***************************************************************************)
EXTENDS Integers, Sequences, FiniteSets, TLC

VARIABLES
    allClassData,   \* the static dataset handed to both assemblers
    call,           \* the arguments of the last assembly call
    locals,         \* values local to the last call (clamped bounds, maxima)
    result,         \* what the last call returned or threw
    tables,         \* the static color tables handed to the assemblers
    frames,         \* the activations of assembler calls run step by step
    cells,          \* the dataSets arrays those activations push to
    page            \* the page shown: its controls, chart and error panel

vars == <<allClassData, call, locals, result, tables, frames, cells, page>>

(***************************************************************************)
(* Program constants                                                       *)
(***************************************************************************)
MinLevel == 5
MaxLevel == 200
Step == 5
Hundred == 100
MaxChannel == 255

\* the seven keys of the stat objects (radarChart.js, lines 8 and 29)
AllStats == {"ATP", "ATA", "DFP", "EVP", "MST", "TP", "HP"}

(***************************************************************************)
(* Bounds of the model                                                     *)
(***************************************************************************)
MaxMult == 2        \* ATP of a class at level l is m * (l / 5), m in 0..MaxMult
MaxSel == 2         \* longest selection of classes or stats
LevelSlack == 1     \* level arguments lie within LevelSlack of 0, 5 and 200
RangeSlack == 6     \* range arguments lie in -RangeSlack..(200 + RangeSlack)
MaxText == 3        \* longest text typed into a level box
MaxDestroys == 2    \* destroy() calls on one chart instance before clicks stop
MaxPasses == 3      \* finite bounds of the loop run alone lie in -1..(MaxPasses * 5)

(***************************************************************************)
(* Arithmetic                                                              *)
(***************************************************************************)
Abs(x) == IF x < 0 THEN -x ELSE x

RECURSIVE Gcd(_, _)
Gcd(a, b) == IF b = 0 THEN a ELSE Gcd(b, a % b)

\* the fraction n/d, d > 0, in lowest terms
Frac(n, d) ==
    LET g == Gcd(Abs(n), d)
    IN  [kind |-> "num", n |-> n \div g, d |-> d \div g]

NaN == [kind |-> "NaN", n |-> 0, d |-> 0]
PosInfinity == [kind |-> "Infinity", n |-> 1, d |-> 0]
NegInfinity == [kind |-> "-Infinity", n |-> -1, d |-> 0]

\* a / b of two integers, as JavaScript evaluates it
JsDivide(a, b) ==
    IF b = 0
    THEN IF a = 0 THEN NaN ELSE IF a > 0 THEN PosInfinity ELSE NegInfinity
    ELSE IF b > 0 THEN Frac(a, b) ELSE Frac(-a, -b)

\* q * k for an integer k > 0
JsTimes(q, k) == IF q.kind = "num" THEN Frac(q.n * k, q.d) ELSE q

IsFinite(q) == q.kind = "num"
\* lo <= q <= hi, false for NaN and the infinities as every comparison is
Between(q, lo, hi) == q.kind = "num" /\ lo * q.d <= q.n /\ q.n <= hi * q.d

\* rounding with Math.floor(x / Step) * Step + Step
CeilToStepNext(x) == (x \div Step) * Step + Step

\* Math.ceil(x / Step) * Step
CeilToStep(x) == (-((-x) \div Step)) * Step

(***************************************************************************)
(* The static data: class tables and colour tables                         *)
(***************************************************************************)
\* the classes of the dataset, in dataset order, and an identifier it lacks
ClassNames == <<"HUcast", "RAmar">>
UnknownClass == "NoSuchClass"
KnownClasses == {ClassNames[i] : i \in 1..Len(ClassNames)}

ClassRank(c) == CHOOSE i \in 1..Len(ClassNames) : ClassNames[i] = c
StatRank(s) ==
    CASE s = "ATP" -> 0 [] s = "ATA" -> 1 [] s = "DFP" -> 2 [] s = "EVP" -> 3
      [] s = "MST" -> 4 [] s = "TP" -> 5 [] s = "HP" -> 6

\* the levels of a complete ClassLevelTable: MinLevel..MaxLevel in steps of Step
TableLevels == {l \in MinLevel..MaxLevel : l % Step = 0}

\* The value of stat s of class c at level l in the dataset chosen by mult:
\* ATP grows by mult[c] per step (0 everywhere when mult[c] = 0), every other
\* stat has a fixed positive growth curve of its own.
StatValue(mult, c, s, l) ==
    IF s = "ATP" THEN mult[c] * (l \div Step)
    ELSE 10 * StatRank(s) + ClassRank(c) + (l \div Step)

\* one entry of levelData: { level, stats }
LevelEntry(mult, c, l) ==
    [level |-> l, stats |-> [s \in AllStats |-> StatValue(mult, c, s, l)]]

\* the levelData of class c holding exactly the levels of `levels`, ascending
RECURSIVE LevelDataFrom(_, _, _, _)
LevelDataFrom(mult, c, l, levels) ==
    IF l > MaxLevel THEN <<>>
    ELSE (IF l \in levels THEN <<LevelEntry(mult, c, l)>> ELSE <<>>)
            \o LevelDataFrom(mult, c, l + Step, levels)

\* a character class data object: { name, levelData }
ClassDataObject(mult, c, levels) ==
    [name |-> c, levelData |-> LevelDataFrom(mult, c, MinLevel, levels)]

\* a dataset whose every table holds the levels of `levels`
DataSetOf(mult, levels) ==
    [i \in 1..Len(ClassNames) |-> ClassDataObject(mult, ClassNames[i], levels)]

\* the datasets of the data model: every table complete, ascending by level
DataSets == {DataSetOf(mult, TableLevels) : mult \in [KnownClasses -> 0..MaxMult]}

\* base colour per stat, and per class
StatBaseColor(s) == [red |-> 30 * StatRank(s), green |-> 200, blue |-> 250 - 30 * StatRank(s)]
allStatColors == [s \in AllStats |-> StatBaseColor(s)]
allCharacterColors ==
    [i \in 1..Len(ClassNames) |->
        [name |-> ClassNames[i],
         color |-> [red |-> 100 * i, green |-> 50 * i, blue |-> 20 * i]]]

(***************************************************************************)
(* Shared accessors (defined outside the assembler files)                  *)
(***************************************************************************)
NotFoundError == "NotFoundError"

HasClass(className, classData) ==
    \E i \in 1..Len(classData) : classData[i].name = className

\* classTable: the entry of className.  A missing entry raises NotFoundError:
\* the callers test HasClass and end the call, so the table without levels
\* returned here for a missing entry is never read.
getCharacterClassDataObject(className, classData) ==
    IF HasClass(className, classData)
    THEN classData[CHOOSE i \in 1..Len(classData) : classData[i].name = className]
    ELSE [name |-> className, levelData |-> <<>>]

\* tableInRange: the entries whose level lies within [startLevel, endLevel],
\* order preserved
getCharacterClassDataInRange(startLevel, endLevel, characterClassData) ==
    [name |-> characterClassData.name,
     levelData |-> SelectSeq(characterClassData.levelData,
                     LAMBDA e : startLevel <= e.level /\ e.level <= endLevel)]

\* resolveStatColor: the base colour of statName shifted by the modifier, each
\* channel saturating at MaxChannel
Saturate(x) == IF x > MaxChannel THEN MaxChannel ELSE IF x < 0 THEN 0 ELSE x
getStatColor(statName, statColors, modifier) ==
    LET shift == modifier.n \div modifier.d
        base == statColors[statName]
    IN  [red |-> Saturate(base.red + shift),
         green |-> Saturate(base.green + shift),
         blue |-> Saturate(base.blue + shift)]

(***************************************************************************)
(* Line graph assembler                                                    *)
(***************************************************************************)
\* rgba(r, g, b, alpha) as the template strings of the datasets build it
Rgba(rgb, alpha) == <<"rgba", rgb.red, rgb.green, rgb.blue, alpha>>

\* the bounds after the two clamps and the rounding
ClampStart(startLevel) == IF startLevel < MinLevel THEN MinLevel ELSE startLevel
ClampEndMissing(endLevel) == endLevel
ClampEnd(endLevel) == IF endLevel > MaxLevel THEN MaxLevel ELSE endLevel
LevelRange(startLevel, endLevel) ==
    [startLevel |-> CeilToStep(ClampStart(startLevel)),
     endLevel |-> CeilToStep(ClampEnd(endLevel))]

\* the loop testing its condition after the body (do ... while)
RECURSIVE createLevelArrayTestLast(_, _)
createLevelArrayTestLast(lower, upper) ==
    <<lower>> \o (IF lower + Step <= upper
                  THEN createLevelArrayTestLast(lower + Step, upper)
                  ELSE <<>>)

\* the loop condition i < upper
RECURSIVE createLevelArrayExclusive(_, _)
createLevelArrayExclusive(lower, upper) ==
    IF lower < upper
    THEN <<lower>> \o createLevelArrayExclusive(lower + Step, upper)
    ELSE <<>>

RECURSIVE createLevelArray(_, _)
createLevelArray(lower, upper) ==
    IF lower <= upper
    THEN <<lower>> \o createLevelArray(lower + Step, upper)
    ELSE <<>>

\* the loop started at index 1 instead of 0
createSingleStatArraySkipFirst(statName, characterClassData) ==
    [i \in 1..(Len(characterClassData.levelData) - 1) |->
        characterClassData.levelData[i + 1].stats[statName]]

createSingleStatArray(statName, characterClassData) ==
    [i \in 1..Len(characterClassData.levelData) |->
        characterClassData.levelData[i].stats[statName]]

\* the options object is written inside data
createLineGraphObject(labels, dataSets, title) ==
    [type |-> "line",
     data |-> [labels |-> labels,
               datasets |-> dataSets,
               options |-> [title |-> [display |-> TRUE, text |-> title]]]]

\* the line datasets with the border as faint as the background
createLineChartDataSetFaint(data, label, rgb) ==
    [data |-> data,
     label |-> label,
     backgroundColor |-> Rgba(rgb, "0.5"),
     borderColor |-> Rgba(rgb, "0.5"),
     pointBorderColor |-> Rgba(rgb, "1"),
     pointBackgroundColor |-> Rgba(rgb, "1"),
     fill |-> FALSE]

createLineChartDataSet(data, label, rgb) ==
    [data |-> data,
     label |-> label,
     backgroundColor |-> Rgba(rgb, "0.5"),
     borderColor |-> Rgba(rgb, "0.75"),
     pointBorderColor |-> Rgba(rgb, "1"),
     pointBackgroundColor |-> Rgba(rgb, "1"),
     fill |-> FALSE]

\* the label `${class}(${stat})`
DataLabel(className, statName) == <<className, "(", statName, ")">>

\* the classes counted from 1 in the modifier
ColorModifierFromOne(i, n) == JsTimes(JsDivide(Hundred, n), i + 1)

\* i * (100 / selectedClasses.length), i counted from 0
ColorModifier(i, n) == JsTimes(JsDivide(Hundred, n), i)

\* the body of the inner loop for the class at position i and the stat at
\* position j (both counted from 1), the class being in the dataset
LineDataSet(selectedClasses, selectedStats, classData, statColors, range, i, j) ==
    LET dataLabel == DataLabel(selectedClasses[i], selectedStats[j])
        characterStatsDataObject ==
            getCharacterClassDataObject(selectedClasses[i], classData)
        characterStatsDataObjectInRange ==
            getCharacterClassDataInRange(range.startLevel, range.endLevel,
                                         characterStatsDataObject)
        statArray == createSingleStatArray(selectedStats[j],
                                           characterStatsDataObjectInRange)
        modifier == ColorModifier(i - 1, Len(selectedClasses))
        rgb == getStatColor(selectedStats[j], statColors, modifier)
    IN  createLineChartDataSet(statArray, dataLabel, rgb)

\* a missing entry going unnoticed
LineLookupNeverThrows(selectedClasses, classData, i) == FALSE

\* the lookup of the class at position i, made in the body of the inner loop,
\* throws
LineLookupThrows(selectedClasses, classData, i) ==
    ~HasClass(selectedClasses[i], classData)

\* the loops exchanged: stats outside, classes inside
RECURSIVE LineLoopsStatsOuter(_, _, _, _, _, _, _, _)
LineLoopsStatsOuter(selectedClasses, selectedStats, classData, statColors, range, i, j, dataSets) ==
    IF j > Len(selectedStats)
    THEN [status |-> "ok", dataSets |-> dataSets]
    ELSE IF i > Len(selectedClasses)
    THEN LineLoopsStatsOuter(selectedClasses, selectedStats, classData,
                             statColors, range, 1, j + 1, dataSets)
    ELSE IF LineLookupThrows(selectedClasses, classData, i)
    THEN [status |-> "error", error |-> NotFoundError]
    ELSE LineLoopsStatsOuter(selectedClasses, selectedStats, classData,
                             statColors, range, i + 1, j,
                             Append(dataSets,
                                    LineDataSet(selectedClasses, selectedStats,
                                                classData, statColors, range, i, j)))

\* the lookup of the class moved out of the inner loop, before it
RECURSIVE LineLoopsLookupFirst(_, _, _, _, _, _, _, _)
LineLoopsLookupFirst(selectedClasses, selectedStats, classData, statColors, range, i, j, dataSets) ==
    IF i > Len(selectedClasses)
    THEN [status |-> "ok", dataSets |-> dataSets]
    ELSE IF LineLookupThrows(selectedClasses, classData, i)
    THEN [status |-> "error", error |-> NotFoundError]
    ELSE IF j > Len(selectedStats)
    THEN LineLoopsLookupFirst(selectedClasses, selectedStats, classData,
                              statColors, range, i + 1, 1, dataSets)
    ELSE LineLoopsLookupFirst(selectedClasses, selectedStats, classData,
                              statColors, range, i, j + 1,
                              Append(dataSets,
                                     LineDataSet(selectedClasses, selectedStats,
                                                 classData, statColors, range, i, j)))

\* the two nested loops from position (i, j) on, dataSets built so far; the
\* lookup of a class the dataset lacks throws and ends the call
RECURSIVE LineLoops(_, _, _, _, _, _, _, _)
LineLoops(selectedClasses, selectedStats, classData, statColors, range, i, j, dataSets) ==
    IF i > Len(selectedClasses)
    THEN [status |-> "ok", dataSets |-> dataSets]
    ELSE IF j > Len(selectedStats)
    THEN LineLoops(selectedClasses, selectedStats, classData, statColors,
                   range, i + 1, 1, dataSets)
    ELSE IF LineLookupThrows(selectedClasses, classData, i)
    THEN [status |-> "error", error |-> NotFoundError]
    ELSE LineLoops(selectedClasses, selectedStats, classData, statColors,
                   range, i, j + 1,
                   Append(dataSets,
                          LineDataSet(selectedClasses, selectedStats, classData,
                                      statColors, range, i, j)))

assembleLineGraphObject(selectedClasses, selectedStats, title, classData, statColors, startLevel, endLevel) ==
    LET range == LevelRange(startLevel, endLevel)
        scaleLabels == createLevelArray(range.startLevel, range.endLevel)
        loops == LineLoops(selectedClasses, selectedStats, classData,
                           statColors, range, 1, 1, <<>>)
    IN  IF loops.status = "ok"
        THEN [status |-> "ok",
              chart |-> createLineGraphObject(scaleLabels, loops.dataSets, title)]
        ELSE loops

(***************************************************************************)
(* Radar chart assembler                                                   *)
(***************************************************************************)
\* the stats of a class at a level; a level off the table's grid or range is
\* taken to the level the range clamp gives (MinLevel..MaxLevel, rounded up)
NearestLevel(level) ==
    LET low == IF level < MinLevel THEN MinLevel ELSE level
        high == IF low > MaxLevel THEN MaxLevel ELSE low
    IN  CeilToStep(high)
getStatsAtLevel(characterClassData, level) ==
    LET data == characterClassData.levelData
        k == CHOOSE i \in 1..Len(data) : data[i].level = NearestLevel(level)
    IN  data[k].stats

\* resolveClassColor: the colour entry of className
getCharacterColor(characterColors, className) ==
    characterColors[CHOOSE i \in 1..Len(characterColors) :
                        characterColors[i].name = className]

ZeroStats == [s \in AllStats |-> 0]

RECURSIVE PercentageLoop(_, _, _, _, _)
PercentageLoop(percentageStats, characterStatsAtLevel, maximumStatsObject, statNames, i) ==
    IF i > Len(statNames) THEN percentageStats
    ELSE PercentageLoop(
            [percentageStats EXCEPT ![statNames[i]] =
                JsTimes(JsDivide(characterStatsAtLevel[statNames[i]],
                                 maximumStatsObject[statNames[i]]), Hundred)],
            characterStatsAtLevel, maximumStatsObject, statNames, i + 1)

\* percentageStats starts with 0 for each of the seven stats
createPercentageStats(characterStatsAtLevel, maximumStatsObject, statNames) ==
    PercentageLoop([s \in AllStats |-> Frac(0, 1)], characterStatsAtLevel,
                   maximumStatsObject, statNames, 1)

createStatAtLevelArray(allCharacters, level) ==
    [i \in 1..Len(allCharacters) |-> getStatsAtLevel(allCharacters[i], level)]

\* the stored maximum overwritten by each class's value
MathMaxKeepsNew(a, b) == a
MathMax(a, b) == IF a >= b THEN a ELSE b

RECURSIVE MaximumLoop(_, _, _, _, _)
MaximumLoop(maximumStats, allCharacterStatsAtLevel, statNames, i, j) ==
    IF i > Len(allCharacterStatsAtLevel) THEN maximumStats
    ELSE IF j > Len(statNames)
    THEN MaximumLoop(maximumStats, allCharacterStatsAtLevel, statNames, i + 1, 1)
    ELSE MaximumLoop(
            [maximumStats EXCEPT ![statNames[j]] =
                MathMax(allCharacterStatsAtLevel[i][statNames[j]],
                        maximumStats[statNames[j]])],
            allCharacterStatsAtLevel, statNames, i, j + 1)

createMaximumStatsObject(allCharacterStatsAtLevel, statNames) ==
    MaximumLoop(ZeroStats, allCharacterStatsAtLevel, statNames, 1, 1)

\* the percentages taken in the reverse of the order of statNames
createStatArrayReversed(percentageStatsObject, statNames) ==
    [i \in 1..Len(statNames) |->
        percentageStatsObject[statNames[Len(statNames) + 1 - i]]]

createStatArray(percentageStatsObject, statNames) ==
    [i \in 1..Len(statNames) |-> percentageStatsObject[statNames[i]]]

\* the scale of the radar chart in steps of 5
createRadarChartObjectStepFive(labels, datasets, title) ==
    [type |-> "radar",
     data |-> [labels |-> labels, datasets |-> datasets],
     options |-> [title |-> [display |-> TRUE, text |-> title],
                  scale |-> [ticks |-> [beginAtZero |-> TRUE, min |-> 0,
                                        max |-> 100, stepSize |-> 5]],
                  legend |-> [position |-> "top"]]]

createRadarChartObject(labels, datasets, title) ==
    [type |-> "radar",
     data |-> [labels |-> labels, datasets |-> datasets],
     options |-> [title |-> [display |-> TRUE, text |-> title],
                  scale |-> [ticks |-> [beginAtZero |-> TRUE, min |-> 0,
                                        max |-> 100, stepSize |-> 10]],
                  legend |-> [position |-> "top"]]]

\* a radar dataset drawn unfilled, as the datasets of the line graph are
createRadarChartDataSetUnfilled(className, percentageStatsArray, rgb) ==
    [label |-> className,
     data |-> percentageStatsArray,
     fill |-> FALSE,
     backgroundColor |-> Rgba(rgb, "0.5"),
     borderColor |-> Rgba(rgb, "0.75"),
     pointBorderColor |-> Rgba(rgb, "1"),
     pointBackgroundColor |-> Rgba(rgb, "1")]

createRadarChartDataSet(className, percentageStatsArray, rgb) ==
    [label |-> className,
     data |-> percentageStatsArray,
     fill |-> TRUE,
     backgroundColor |-> Rgba(rgb, "0.5"),
     borderColor |-> Rgba(rgb, "0.75"),
     pointBorderColor |-> Rgba(rgb, "1"),
     pointBackgroundColor |-> Rgba(rgb, "1")]

\* the maxima taken over the selected classes only
NormalizationClassesSelected(selectedCharacterClasses, classData) ==
    SelectSeq(classData,
              LAMBDA c : \E i \in 1..Len(selectedCharacterClasses) :
                            selectedCharacterClasses[i] = c.name)

\* the classes whose stats enter the maxima: the whole dataset
NormalizationClasses(selectedCharacterClasses, classData) == classData

\* the maxima the loop body computes: the same in every iteration
RadarMaximumStats(selectedCharacterClasses, classData, selectedLevel, statNames) ==
    createMaximumStatsObject(
        createStatAtLevelArray(
            NormalizationClasses(selectedCharacterClasses, classData),
            selectedLevel),
        statNames)

\* the lookup of the class at position i throws
RadarLookupThrows(selectedCharacterClasses, classData, i) ==
    ~HasClass(selectedCharacterClasses[i], classData)

\* the body of the loop for the class at position i, the class being in the
\* dataset
RadarDataSet(selectedCharacterClasses, classData, characterColors, selectedLevel, statNames, i) ==
    LET characterClassData ==
            getCharacterClassDataObject(selectedCharacterClasses[i], classData)
        characterStatsAtLevel == getStatsAtLevel(characterClassData, selectedLevel)
        maximumStatsObject ==
            RadarMaximumStats(selectedCharacterClasses, classData,
                              selectedLevel, statNames)
        percentageStatsObject ==
            createPercentageStats(characterStatsAtLevel, maximumStatsObject, statNames)
        percentageStatArray == createStatArray(percentageStatsObject, statNames)
        characterColor ==
            getCharacterColor(characterColors, selectedCharacterClasses[i])
    IN  createRadarChartDataSet(selectedCharacterClasses[i], percentageStatArray,
                                characterColor.color)

RECURSIVE RadarLoop(_, _, _, _, _, _, _)
RadarLoop(selectedCharacterClasses, classData, characterColors, selectedLevel, statNames, i, dataSets) ==
    IF i > Len(selectedCharacterClasses)
    THEN [status |-> "ok", dataSets |-> dataSets]
    ELSE IF RadarLookupThrows(selectedCharacterClasses, classData, i)
    THEN [status |-> "error", error |-> NotFoundError]
    ELSE RadarLoop(selectedCharacterClasses, classData, characterColors,
                   selectedLevel, statNames, i + 1,
                   Append(dataSets,
                          RadarDataSet(selectedCharacterClasses, classData,
                                       characterColors, selectedLevel,
                                       statNames, i)))

createRadarChartDataSets(selectedCharacterClasses, classData, characterColors, selectedLevel, statNames) ==
    RadarLoop(selectedCharacterClasses, classData, characterColors,
              selectedLevel, statNames, 1, <<>>)

assembleRadarChartObject(selectedCharacterClasses, classData, characterColors, selectedLevel, statNames) ==
    LET dataSets == createRadarChartDataSets(selectedCharacterClasses, classData,
                        characterColors, selectedLevel, statNames)
    IN  IF dataSets.status = "ok"
        THEN [status |-> "ok",
              chart |-> createRadarChartObject(statNames, dataSets.dataSets,
                                               "Class stats")]
        ELSE dataSets

(***************************************************************************)
(* Arguments of the calls                                                  *)
(***************************************************************************)
\* sequences without repetition, of at most n elements of S
SeqsUpTo(S, n) ==
    {q \in UNION {[1..k -> S] : k \in 0..n} :
        \A i, j \in 1..Len(q) : q[i] = q[j] => i = j}

ClassSelections == SeqsUpTo(KnownClasses \cup {UnknownClass}, MaxSel)
StatSelections == SeqsUpTo({"ATP", "HP"}, MaxSel)

\* level arguments: around 0, around MinLevel and around MaxLevel
LevelInputs ==
    UNION {(a - LevelSlack)..(a + LevelSlack) : a \in {0, MinLevel, MaxLevel}}

\* the statNames argument of the radar assembler
StatNameInputs ==
    {<<"ATP", "HP">>, <<"HP", "ATP">>,
     <<"ATP", "ATA", "DFP", "EVP", "MST", "TP", "HP">>}

Title == "Character stat growth"

NoCall ==
    [fn |-> "none", selectedClasses |-> <<>>, selectedStats |-> <<>>,
     startLevel |-> 0, endLevel |-> 0, selectedLevel |-> 0, statNames |-> <<>>]
NoLocals ==
    [startLevel |-> 0, endLevel |-> 0,
     maximumComputed |-> FALSE, maximumStatsObject |-> ZeroStats]
NoResult == [status |-> "none", error |-> "", chart |-> <<>>]

\* the outcome of a call in the shape of `result`
Outcome(r) ==
    IF r.status = "ok"
    THEN [status |-> "ok", error |-> "", chart |-> r.chart]
    ELSE [status |-> "error", error |-> r.error, chart |-> <<>>]

\* the color tables of the pages
StaticTables ==
    [allStatColors |-> allStatColors, allCharacterColors |-> allCharacterColors]

\* an assembler call run step by step has an activation in one of two slots
Slots == {1, 2}

\* an activation: the arguments as the caller passed them (call), the arrays
\* among them as they are now (args), the parameters the call reassigns, the
\* local scaleLabels, the loop counters, the modifier the loop body computed
\* last, the outcome, and the array that the data.labels of a returned
\* ChartSpec is (labelsCell)
NoArgs == [selectedClasses |-> <<>>, selectedStats |-> <<>>, statNames |-> <<>>]
NoFrame ==
    [pc |-> "idle", call |-> NoCall, args |-> NoArgs,
     startLevel |-> 0, endLevel |-> 0, scaleLabels |-> <<>>,
     i |-> 1, j |-> 1, modifier |-> Frac(0, 1), out |-> NoResult,
     labelsCell |-> 0]

\* the chart handle of a controller (`var chart`, `var graph`): whether it
\* holds an instance, whether that instance is alive, and the destroy() calls
\* made on it
NoChart == [made |-> FALSE, alive |-> FALSE, destroys |-> 0]

\* the radar page before the first click: the level boxes, the checkboxes, the
\* chart handle, the number of chart instances the controller has made and
\* not destroyed, the error panel, and the globals isValid and errorMessages
NoPage ==
    [kind |-> "radar",
     tbLevel |-> <<>>, tbStart |-> <<>>, tbEnd |-> <<>>,
     checked |-> {}, checkedStats |-> {},
     chart |-> NoChart, undestroyed |-> 0,
     errorShown |-> FALSE, errorDivs |-> <<>>,
     isValid |-> TRUE, errorMessages |-> <<>>]

\* the line-graph page before the first click
NoLinePage == [NoPage EXCEPT !.kind = "line"]

(***************************************************************************)
(* The state machine: one action per assembler call.  The assemblers are   *)
(* synchronous, so a call starts only when no other call is under way.     *)
(***************************************************************************)
Init ==
    /\ allClassData \in DataSets
    /\ call = NoCall
    /\ locals = NoLocals
    /\ result = NoResult
    /\ tables = StaticTables
    /\ frames = [s \in Slots |-> NoFrame]
    /\ cells = [s \in Slots |-> <<>>]
    /\ page = NoPage

LineCall ==
    /\ call.fn = "none"
    /\ \E selectedClasses \in ClassSelections, selectedStats \in StatSelections,
          startLevel \in LevelInputs, endLevel \in LevelInputs :
        /\ call' = [NoCall EXCEPT !.fn = "line",
                                  !.selectedClasses = selectedClasses,
                                  !.selectedStats = selectedStats,
                                  !.startLevel = startLevel,
                                  !.endLevel = endLevel]
        /\ locals' = [NoLocals EXCEPT
                        !.startLevel = LevelRange(startLevel, endLevel).startLevel,
                        !.endLevel = LevelRange(startLevel, endLevel).endLevel]
        /\ result' = Outcome(assembleLineGraphObject(selectedClasses, selectedStats,
                                Title, allClassData, allStatColors,
                                startLevel, endLevel))
        /\ UNCHANGED <<allClassData, tables, frames, cells, page>>

RadarCall ==
    /\ call.fn = "none"
    /\ \E selectedClasses \in ClassSelections, selectedLevel \in LevelInputs,
          statNames \in StatNameInputs :
        /\ call' = [NoCall EXCEPT !.fn = "radar",
                                  !.selectedClasses = selectedClasses,
                                  !.selectedLevel = selectedLevel,
                                  !.statNames = statNames]
        /\ locals' =
            IF Len(selectedClasses) > 0
               /\ ~RadarLookupThrows(selectedClasses, allClassData, 1)
            THEN [NoLocals EXCEPT
                    !.maximumComputed = TRUE,
                    !.maximumStatsObject =
                        RadarMaximumStats(selectedClasses, allClassData,
                                          selectedLevel, statNames)]
            ELSE NoLocals
        /\ result' = Outcome(assembleRadarChartObject(selectedClasses, allClassData,
                                allCharacterColors, selectedLevel, statNames))
        /\ UNCHANGED <<allClassData, tables, frames, cells, page>>

\* the caller has handed the ChartSpec to the renderer, or seen the error; the
\* values of the call are gone and the next call starts from the static data
Discard ==
    /\ call.fn # "none"
    /\ call' = NoCall
    /\ locals' = NoLocals
    /\ result' = NoResult
    /\ UNCHANGED <<allClassData, tables, frames, cells, page>>

Next == LineCall \/ RadarCall \/ Discard

Spec == Init /\ [][Next]_vars

\* The line assembler over tables that break the data model: every table
\* lacks one level of GapLevels, so the levels of a range and the entries of
\* the table filtered to it need not match.
GapLevels == {MinLevel + Step, MaxLevel}
FullMult == [c \in KnownClasses |-> MaxMult]
GapDataSets == {DataSetOf(FullMult, TableLevels \ {g}) : g \in GapLevels}

InitMismatch ==
    /\ allClassData \in GapDataSets
    /\ call = NoCall
    /\ locals = NoLocals
    /\ result = NoResult
    /\ tables = StaticTables
    /\ frames = [s \in Slots |-> NoFrame]
    /\ cells = [s \in Slots |-> <<>>]
    /\ page = NoPage

NextMismatch == LineCall \/ Discard

SpecMismatch == InitMismatch /\ [][NextMismatch]_vars

\* The range arithmetic over every integer near and between the clamps: line
\* calls with one class and one stat over each pair of bounds, and direct
\* calls of createLevelArray.
RangeInputs == (0 - RangeSlack)..(MaxLevel + RangeSlack)

InitRange ==
    /\ allClassData = DataSetOf(FullMult, TableLevels)
    /\ call = NoCall
    /\ locals = NoLocals
    /\ result = NoResult
    /\ tables = StaticTables
    /\ frames = [s \in Slots |-> NoFrame]
    /\ cells = [s \in Slots |-> <<>>]
    /\ page = NoPage

LineRangeCall ==
    /\ call.fn = "none"
    /\ \E startLevel \in RangeInputs, endLevel \in RangeInputs :
        /\ call' = [NoCall EXCEPT !.fn = "line",
                                  !.selectedClasses = <<ClassNames[1]>>,
                                  !.selectedStats = <<"ATP">>,
                                  !.startLevel = startLevel,
                                  !.endLevel = endLevel]
        /\ locals' = [NoLocals EXCEPT
                        !.startLevel = LevelRange(startLevel, endLevel).startLevel,
                        !.endLevel = LevelRange(startLevel, endLevel).endLevel]
        /\ result' = Outcome(assembleLineGraphObject(<<ClassNames[1]>>, <<"ATP">>,
                                Title, allClassData, allStatColors,
                                startLevel, endLevel))
        /\ UNCHANGED <<allClassData, tables, frames, cells, page>>

\* createLevelArray(lower, upper) called by itself; result.chart holds the
\* array it returns
LevelArrayCall ==
    /\ call.fn = "none"
    /\ \E lower \in RangeInputs, upper \in RangeInputs :
        /\ call' = [NoCall EXCEPT !.fn = "createLevelArray",
                                  !.startLevel = lower,
                                  !.endLevel = upper]
        /\ locals' = NoLocals
        /\ result' = [NoResult EXCEPT !.status = "ok",
                                      !.chart = createLevelArray(lower, upper)]
        /\ UNCHANGED <<allClassData, tables, frames, cells, page>>

NextRange == LineRangeCall \/ LevelArrayCall \/ Discard

SpecRange == InitRange /\ [][NextRange]_vars

(***************************************************************************)
(* The assemblers step by step.  Two activations run at once and their     *)
(* steps interleave freely: a step is the entry of a call, one pass of its *)
(* loop, or its return.  Both read the one dataset and the color tables.   *)
(***************************************************************************)
\* one array for every activation to push to
DataSetsCellShared(slot) == 1

\* `let dataSets = []` makes an array of the activation's own
DataSetsCell(slot) == slot

\* the inner loop taking its stat with selectedStats.shift()
LineAdvanceShift(f) == [f EXCEPT !.args.selectedStats = Tail(@)]

\* j++ of the inner loop
LineAdvance(f) == [f EXCEPT !.j = @ + 1]

\* the bounds of the line calls run step by step
StepStartLevel == MinLevel
StepEndLevel == MinLevel + Step
\* the statNames of the radar calls run step by step: the short ones
StepStatNameInputs == {q \in StatNameInputs : Len(q) <= MaxSel}

InitSteps ==
    /\ allClassData = DataSetOf(FullMult, TableLevels)
    /\ call = NoCall
    /\ locals = NoLocals
    /\ result = NoResult
    /\ tables = StaticTables
    /\ frames = [s \in Slots |-> NoFrame]
    /\ cells = [s \in Slots |-> <<>>]
    /\ page = NoPage

\* lines 3-16: the bounds clamped and rounded, the labels made, dataSets = []
LineEnter(s) ==
    /\ frames[s].pc = "idle"
    /\ \E selectedClasses \in ClassSelections, selectedStats \in StatSelections :
        LET range == LevelRange(StepStartLevel, StepEndLevel)
        IN  frames' = [frames EXCEPT ![s] =
                [NoFrame EXCEPT
                    !.pc = "loop",
                    !.call = [NoCall EXCEPT !.fn = "line",
                                            !.selectedClasses = selectedClasses,
                                            !.selectedStats = selectedStats,
                                            !.startLevel = StepStartLevel,
                                            !.endLevel = StepEndLevel],
                    !.args = [NoArgs EXCEPT !.selectedClasses = selectedClasses,
                                            !.selectedStats = selectedStats],
                    !.startLevel = range.startLevel,
                    !.endLevel = range.endLevel,
                    !.scaleLabels = createLevelArray(range.startLevel,
                                                     range.endLevel)]]
    /\ cells' = [cells EXCEPT ![DataSetsCell(s)] = <<>>]
    /\ UNCHANGED <<allClassData, call, locals, result, tables, page>>

\* lines 18-30: one test of the loop conditions and, if they hold, one pass of
\* the inner loop's body
LineStep(s) ==
    LET f == frames[s]
        range == [startLevel |-> f.startLevel, endLevel |-> f.endLevel]
    IN  /\ f.pc = "loop"
        /\ f.call.fn = "line"
        /\ f.i <= Len(f.args.selectedClasses)
        /\ IF f.j > Len(f.args.selectedStats)
           THEN /\ frames' = [frames EXCEPT ![s].i = f.i + 1, ![s].j = 1]
                /\ UNCHANGED cells
           ELSE IF LineLookupThrows(f.args.selectedClasses, allClassData, f.i)
           THEN /\ frames' = [frames EXCEPT
                        ![s].pc = "done",
                        ![s].out = Outcome([status |-> "error",
                                            error |-> NotFoundError])]
                /\ UNCHANGED cells
           ELSE /\ cells' = [cells EXCEPT ![DataSetsCell(s)] =
                        Append(@, LineDataSet(f.args.selectedClasses,
                                              f.args.selectedStats, allClassData,
                                              tables.allStatColors, range,
                                              f.i, f.j))]
                /\ frames' = [frames EXCEPT ![s] =
                        [LineAdvance(f) EXCEPT !.modifier =
                            ColorModifier(f.i - 1, Len(f.args.selectedClasses))]]
        /\ UNCHANGED <<allClassData, call, locals, result, tables, page>>

\* lines 32-33
LineReturn(s) ==
    LET f == frames[s]
    IN  /\ f.pc = "loop"
        /\ f.call.fn = "line"
        /\ f.i > Len(f.args.selectedClasses)
        /\ frames' = [frames EXCEPT
                ![s].pc = "done",
                ![s].out = Outcome([status |-> "ok",
                    chart |-> createLineGraphObject(f.scaleLabels,
                                  cells[DataSetsCell(s)], Title)])]
        /\ UNCHANGED <<allClassData, call, locals, result, tables, cells, page>>

\* radarChart.js lines 2 and 76: dataSets = []
RadarEnter(s) ==
    /\ frames[s].pc = "idle"
    /\ \E selectedClasses \in ClassSelections, statNames \in StepStatNameInputs :
        frames' = [frames EXCEPT ![s] =
            [NoFrame EXCEPT
                !.pc = "loop",
                !.call = [NoCall EXCEPT !.fn = "radar",
                                        !.selectedClasses = selectedClasses,
                                        !.selectedLevel = StepStartLevel,
                                        !.statNames = statNames],
                !.args = [NoArgs EXCEPT !.selectedClasses = selectedClasses,
                                        !.statNames = statNames]]]
    /\ cells' = [cells EXCEPT ![DataSetsCell(s)] = <<>>]
    /\ UNCHANGED <<allClassData, call, locals, result, tables, page>>

\* radarChart.js lines 77-87: one pass of the loop's body
RadarStep(s) ==
    LET f == frames[s]
    IN  /\ f.pc = "loop"
        /\ f.call.fn = "radar"
        /\ f.i <= Len(f.args.selectedClasses)
        /\ IF RadarLookupThrows(f.args.selectedClasses, allClassData, f.i)
           THEN /\ frames' = [frames EXCEPT
                        ![s].pc = "done",
                        ![s].out = Outcome([status |-> "error",
                                            error |-> NotFoundError])]
                /\ UNCHANGED cells
           ELSE /\ cells' = [cells EXCEPT ![DataSetsCell(s)] =
                        Append(@, RadarDataSet(f.args.selectedClasses,
                                               allClassData,
                                               tables.allCharacterColors,
                                               f.call.selectedLevel,
                                               f.args.statNames, f.i))]
                /\ frames' = [frames EXCEPT ![s].i = f.i + 1]
        /\ UNCHANGED <<allClassData, call, locals, result, tables, page>>

\* radarChart.js lines 88 and 3-4
RadarReturn(s) ==
    LET f == frames[s]
    IN  /\ f.pc = "loop"
        /\ f.call.fn = "radar"
        /\ f.i > Len(f.args.selectedClasses)
        /\ frames' = [frames EXCEPT
                ![s].pc = "done",
                ![s].out = Outcome([status |-> "ok",
                    chart |-> createRadarChartObject(f.args.statNames,
                                  cells[DataSetsCell(s)], "Class stats")])]
        /\ UNCHANGED <<allClassData, call, locals, result, tables, cells, page>>

\* the caller has taken the outcome; the activation and its array are gone
FrameDiscard(s) ==
    /\ frames[s].pc = "done"
    /\ frames' = [frames EXCEPT ![s] = NoFrame]
    /\ cells' = [cells EXCEPT ![DataSetsCell(s)] = <<>>]
    /\ UNCHANGED <<allClassData, call, locals, result, tables, page>>

NextSteps ==
    \E s \in Slots :
        \/ LineEnter(s)
        \/ LineStep(s)
        \/ LineReturn(s)
        \/ RadarEnter(s)
        \/ RadarStep(s)
        \/ RadarReturn(s)
        \/ FrameDiscard(s)

SpecSteps == InitSteps /\ [][NextSteps]_vars

(***************************************************************************)
(* The radar page: the level box, the class checkboxes, the chart and the  *)
(* error panel, and the click handler radarChartClick.                     *)
(***************************************************************************)
Digits == <<"0", "1", "2", "3", "4", "5", "6", "7", "8", "9">>
IsDigit(c) == \E d \in 1..Len(Digits) : Digits[d] = c
DigitValue(c) == (CHOOSE d \in 1..Len(Digits) : Digits[d] = c) - 1

\* the digits of text from position k on, up to the first other character;
\* NaN when there is none
RECURSIVE ParseDigits(_, _, _, _)
ParseDigits(text, k, acc, seen) ==
    IF k <= Len(text) /\ IsDigit(text[k])
    THEN ParseDigits(text, k + 1, acc * 10 + DigitValue(text[k]), TRUE)
    ELSE IF seen THEN Frac(acc, 1) ELSE NaN

\* parseInt(text, 10): an optional sign, then digits
parseInt(text) ==
    IF text # <<>> /\ text[1] = "-"
    THEN LET v == ParseDigits(text, 2, 0, FALSE)
         IN  IF v.kind = "num" THEN Frac(0 - v.n, 1) ELSE v
    ELSE ParseDigits(text, 1, 0, FALSE)

isNaN(v) == v.kind = "NaN"

\* the level taken for a text that is no level
OutOfRangeLevel == 205

\* lines 14-18 of radarChartClick: the level parsed, replaced when it is
\* below 5, above 200 or not a number
PassedLevel(text) ==
    LET parsed == parseInt(text)
    IN  IF isNaN(parsed) THEN OutOfRangeLevel
        ELSE IF parsed.n < MinLevel \/ parsed.n > MaxLevel THEN OutOfRangeLevel
        ELSE parsed.n

\* getSelectedClasses: the checked classes in the order of the checkboxes
getSelectedClasses(checked) == SelectSeq(ClassNames, LAMBDA c : c \in checked)

\* the global _statNames
PageStatNames == <<"ATP", "ATA", "DFP", "EVP", "MST", "TP", "HP">>

NoClassMessage == "Please select atleast one class."

\* only the first message shown
createErrorDivsFirstOnly(messages) ==
    IF messages = <<>> THEN <<>>
    ELSE <<"<div>", Head(messages), "</div>">>

RECURSIVE createErrorDivs(_)
createErrorDivs(messages) ==
    IF messages = <<>> THEN <<>>
    ELSE <<"<div>", Head(messages), "</div>">> \o createErrorDivs(Tail(messages))

\* getSelectedStats: the checked stats in the order of the checkboxes
StatBoxes == <<"ATP", "DFP", "MST", "ATA", "EVP", "HP", "TP">>
getSelectedStats(checked) == SelectSeq(StatBoxes, LAMBDA c : c \in checked)

StartMessage == "Please enter a valid start level."
EndMessage == "Please enter a valid end level."
NoStatMessage == "Please select atleast one stat."
OrderMessage == "Start level should be lower than end level."

\* the handle and the count of live instances with no destroy() made
DestroyNothing(p) == p

\* lines 5-7 of a click: if (chart) chart.destroy()
DestroyChart(p) ==
    IF p.chart.made
    THEN [p EXCEPT !.chart.alive = FALSE,
                   !.chart.destroys = @ + 1,
                   !.undestroyed = IF p.chart.alive THEN @ - 1 ELSE @]
    ELSE p

\* chart = new Chart(canvas, chartSpec)
NewChart(p) ==
    [p EXCEPT !.chart = [made |-> TRUE, alive |-> TRUE, destroys |-> 0],
              !.undestroyed = @ + 1]

\* an error panel left as it is
hideErrorKeeps(p) == p

\* hideError
hideError(p) == [p EXCEPT !.errorShown = FALSE, !.errorDivs = <<>>]

\* showError
showError(p, divs) == [p EXCEPT !.errorShown = TRUE, !.errorDivs = divs]

\* what can be typed into the level box of the radar page, and into the
\* start and end boxes of the line-graph page
TextChars == {"0", "2", "-"}
StartChars == {"2"}
EndChars == {"0", "2"}
\* the checkboxes of the pages
ClassBoxes == KnownClasses
LineStatBoxes == {"ATP"}

InitPage ==
    /\ allClassData = DataSetOf(FullMult, TableLevels)
    /\ call = NoCall
    /\ locals = NoLocals
    /\ result = NoResult
    /\ tables = StaticTables
    /\ frames = [s \in Slots |-> NoFrame]
    /\ cells = [s \in Slots |-> <<>>]
    /\ page \in {NoPage, NoLinePage}

TypeChar ==
    /\ page.kind = "radar"
    /\ Len(page.tbLevel) < MaxText
    /\ \E c \in TextChars : page' = [page EXCEPT !.tbLevel = Append(@, c)]
    /\ UNCHANGED <<allClassData, call, locals, result, tables, frames, cells>>

ClearLevel ==
    /\ page.kind = "radar"
    /\ page.tbLevel # <<>>
    /\ page' = [page EXCEPT !.tbLevel = <<>>]
    /\ UNCHANGED <<allClassData, call, locals, result, tables, frames, cells>>

TypeStart ==
    /\ page.kind = "line"
    /\ Len(page.tbStart) < MaxText
    /\ \E c \in StartChars : page' = [page EXCEPT !.tbStart = Append(@, c)]
    /\ UNCHANGED <<allClassData, call, locals, result, tables, frames, cells>>

TypeEnd ==
    /\ page.kind = "line"
    /\ Len(page.tbEnd) < MaxText
    /\ \E c \in EndChars : page' = [page EXCEPT !.tbEnd = Append(@, c)]
    /\ UNCHANGED <<allClassData, call, locals, result, tables, frames, cells>>

ClearStart ==
    /\ page.kind = "line"
    /\ page.tbStart # <<>>
    /\ page' = [page EXCEPT !.tbStart = <<>>]
    /\ UNCHANGED <<allClassData, call, locals, result, tables, frames, cells>>

ClearEnd ==
    /\ page.kind = "line"
    /\ page.tbEnd # <<>>
    /\ page' = [page EXCEPT !.tbEnd = <<>>]
    /\ UNCHANGED <<allClassData, call, locals, result, tables, frames, cells>>

ToggleClass ==
    /\ \E c \in ClassBoxes :
        page' = [page EXCEPT !.checked =
                    IF c \in @ THEN @ \ {c} ELSE @ \cup {c}]
    /\ UNCHANGED <<allClassData, call, locals, result, tables, frames, cells>>

ToggleStat ==
    /\ page.kind = "line"
    /\ \E c \in LineStatBoxes :
        page' = [page EXCEPT !.checkedStats =
                    IF c \in @ THEN @ \ {c} ELSE @ \cup {c}]
    /\ UNCHANGED <<allClassData, call, locals, result, tables, frames, cells>>

\* radarChartClick, from its first line to its last; call and result record
\* the call of assembleRadarChartObject it makes, if it makes one
radarChartClick ==
    LET cleared == [hideError(DestroyChart(page)) EXCEPT
                        !.isValid = TRUE, !.errorMessages = <<>>]
        selectedClasses == getSelectedClasses(page.checked)
        selectedLevel == PassedLevel(page.tbLevel)
        isValid == ~(Len(selectedClasses) < 1)
        errorMessages == IF Len(selectedClasses) < 1
                         THEN <<NoClassMessage>> ELSE <<>>
    IN  /\ page.kind = "radar"
        /\ ~(page.chart.made /\ page.chart.destroys >= MaxDestroys)
        /\ IF isValid
           THEN /\ call' = [NoCall EXCEPT !.fn = "radar",
                                          !.selectedClasses = selectedClasses,
                                          !.selectedLevel = selectedLevel,
                                          !.statNames = PageStatNames]
                /\ locals' =
                    IF ~RadarLookupThrows(selectedClasses, allClassData, 1)
                    THEN [NoLocals EXCEPT
                            !.maximumComputed = TRUE,
                            !.maximumStatsObject =
                                RadarMaximumStats(selectedClasses, allClassData,
                                                  selectedLevel, PageStatNames)]
                    ELSE NoLocals
                /\ result' = Outcome(assembleRadarChartObject(
                                selectedClasses, allClassData,
                                tables.allCharacterColors, selectedLevel,
                                PageStatNames))
                /\ page' = IF result'.status = "ok"
                           THEN NewChart(cleared)
                           ELSE cleared
           ELSE /\ call' = NoCall
                /\ locals' = NoLocals
                /\ result' = NoResult
                /\ page' = showError(
                            [cleared EXCEPT !.isValid = FALSE,
                                            !.errorMessages = errorMessages],
                            createErrorDivs(errorMessages))
        /\ UNCHANGED <<allClassData, tables, frames, cells>>

\* lines 14-23 of lineGraphClick: a level parsed, start raised to 5 (raise
\* TRUE) or end lowered to 200 (raise FALSE); NaN stays NaN
ClickLevel(text, raise) ==
    LET parsed == parseInt(text)
    IN  IF isNaN(parsed) THEN parsed
        ELSE IF raise /\ parsed.n < MinLevel THEN Frac(MinLevel, 1)
        ELSE IF ~raise /\ parsed.n > MaxLevel THEN Frac(MaxLevel, 1)
        ELSE parsed

\* startLevel >= endLevel, false when either is NaN
JsGreaterEq(a, b) == ~isNaN(a) /\ ~isNaN(b) /\ a.n >= b.n

\* the order check read as startLevel > endLevel
LineErrorMessagesStrict(startLevel, endLevel, selectedClasses, selectedStats) ==
    (IF isNaN(startLevel) THEN <<StartMessage>> ELSE <<>>)
    \o (IF isNaN(endLevel) THEN <<EndMessage>> ELSE <<>>)
    \o (IF Len(selectedClasses) < 1 THEN <<NoClassMessage>> ELSE <<>>)
    \o (IF Len(selectedStats) < 1 THEN <<NoStatMessage>> ELSE <<>>)
    \o (IF JsGreaterEq(startLevel, endLevel) /\ startLevel # endLevel
        THEN <<OrderMessage>> ELSE <<>>)

\* lines 25-51 of lineGraphClick: the messages pushed by the five checks
LineErrorMessages(startLevel, endLevel, selectedClasses, selectedStats) ==
    (IF isNaN(startLevel) THEN <<StartMessage>> ELSE <<>>)
    \o (IF isNaN(endLevel) THEN <<EndMessage>> ELSE <<>>)
    \o (IF Len(selectedClasses) < 1 THEN <<NoClassMessage>> ELSE <<>>)
    \o (IF Len(selectedStats) < 1 THEN <<NoStatMessage>> ELSE <<>>)
    \o (IF JsGreaterEq(startLevel, endLevel) THEN <<OrderMessage>> ELSE <<>>)

\* lineGraphClick, from its first line to its last; isValid and errorMessages
\* are locals here, and isValid is false exactly when a message was pushed
lineGraphClick ==
    LET cleared == hideError(DestroyChart(page))
        startLevel == ClickLevel(page.tbStart, TRUE)
        endLevel == ClickLevel(page.tbEnd, FALSE)
        selectedClasses == getSelectedClasses(page.checked)
        selectedStats == getSelectedStats(page.checkedStats)
        errorMessages == LineErrorMessages(startLevel, endLevel,
                                           selectedClasses, selectedStats)
        isValid == errorMessages = <<>>
    IN  /\ page.kind = "line"
        /\ ~(page.chart.made /\ page.chart.destroys >= MaxDestroys)
        /\ IF isValid
           THEN /\ call' = [NoCall EXCEPT !.fn = "line",
                                          !.selectedClasses = selectedClasses,
                                          !.selectedStats = selectedStats,
                                          !.startLevel = startLevel.n,
                                          !.endLevel = endLevel.n]
                /\ locals' = [NoLocals EXCEPT
                        !.startLevel = LevelRange(startLevel.n, endLevel.n).startLevel,
                        !.endLevel = LevelRange(startLevel.n, endLevel.n).endLevel]
                /\ result' = Outcome(assembleLineGraphObject(
                                selectedClasses, selectedStats, Title,
                                allClassData, tables.allStatColors,
                                startLevel.n, endLevel.n))
                /\ page' = IF result'.status = "ok"
                           THEN NewChart(cleared)
                           ELSE cleared
           ELSE /\ call' = NoCall
                /\ locals' = NoLocals
                /\ result' = NoResult
                /\ page' = showError(cleared, createErrorDivs(errorMessages))
        /\ UNCHANGED <<allClassData, tables, frames, cells>>

NextPage ==
    \/ TypeChar \/ ClearLevel \/ ToggleClass \/ radarChartClick
    \/ TypeStart \/ TypeEnd \/ ClearStart \/ ClearEnd \/ ToggleStat
    \/ lineGraphClick

SpecPage == InitPage /\ [][NextPage]_vars

(***************************************************************************)
(* The arrays of the ChartSpecs.  A ChartSpec holds its data.labels by     *)
(* reference, so the arrays are cells of a heap: cell StatNamesCell is the *)
(* statNames array the caller of the radar assembler owns, cell s is the   *)
(* levels array the line call of holder s made.  Two holders each keep the *)
(* ChartSpec of one call and may change the array its data.labels is.      *)
(***************************************************************************)
StatNamesCell == 0
HeapCells == {StatNamesCell} \cup Slots

\* the statNames array as its owner made it
FreshStatNames == <<"ATP", "HP">>

FreshClassSelections == {q \in ClassSelections : Len(q) <= 1}
FreshStatSelections == {q \in StatSelections : Len(q) = 1}

\* radarChart.js lines 3 and 51: `labels: labels` is the statNames argument
RadarLabelsCell(s) == StatNamesCell

\* part_000 lines 37 and 41: `let levels = []` is an array of the call's own
LineLabelsCell(s) == s

InitFresh ==
    /\ allClassData = DataSetOf(FullMult, TableLevels)
    /\ call = NoCall
    /\ locals = NoLocals
    /\ result = NoResult
    /\ tables = StaticTables
    /\ frames = [s \in Slots |-> NoFrame]
    /\ cells = [c \in HeapCells |->
                    IF c = StatNamesCell THEN FreshStatNames ELSE <<>>]
    /\ page = NoPage

\* a whole call of assembleRadarChartObject with the caller's statNames array
FreshRadarCall(s) ==
    /\ frames[s].pc = "idle"
    /\ \E selectedClasses \in FreshClassSelections :
        LET statNames == cells[StatNamesCell]
            r == assembleRadarChartObject(selectedClasses, allClassData,
                     tables.allCharacterColors, StepStartLevel, statNames)
        IN  frames' = [frames EXCEPT ![s] =
                [NoFrame EXCEPT
                    !.pc = "done",
                    !.call = [NoCall EXCEPT !.fn = "radar",
                                            !.selectedClasses = selectedClasses,
                                            !.selectedLevel = StepStartLevel,
                                            !.statNames = statNames],
                    !.out = Outcome(r),
                    !.labelsCell = RadarLabelsCell(s)]]
    /\ UNCHANGED <<allClassData, call, locals, result, tables, cells, page>>

\* a whole call of assembleLineGraphObject; its levels array is a new cell
FreshLineCall(s) ==
    /\ frames[s].pc = "idle"
    /\ \E selectedClasses \in FreshClassSelections,
          selectedStats \in FreshStatSelections :
        LET r == assembleLineGraphObject(selectedClasses, selectedStats, Title,
                     allClassData, tables.allStatColors,
                     StepStartLevel, StepEndLevel)
        IN  /\ frames' = [frames EXCEPT ![s] =
                    [NoFrame EXCEPT
                        !.pc = "done",
                        !.call = [NoCall EXCEPT !.fn = "line",
                                                !.selectedClasses = selectedClasses,
                                                !.selectedStats = selectedStats,
                                                !.startLevel = StepStartLevel,
                                                !.endLevel = StepEndLevel],
                        !.out = Outcome(r),
                        !.labelsCell = LineLabelsCell(s)]]
            /\ cells' = [cells EXCEPT ![LineLabelsCell(s)] =
                            IF r.status = "ok" THEN r.chart.data.labels ELSE <<>>]
    /\ UNCHANGED <<allClassData, call, locals, result, tables, page>>

\* the holder of a ChartSpec takes the last element off its data.labels
LabelsPop(s) ==
    LET c == frames[s].labelsCell
    IN  /\ frames[s].pc = "done"
        /\ frames[s].out.status = "ok"
        /\ cells[c] # <<>>
        /\ cells' = [cells EXCEPT ![c] = SubSeq(@, 1, Len(@) - 1)]
        /\ UNCHANGED <<allClassData, call, locals, result, tables, frames, page>>

\* the holder lets go of its ChartSpec; an array of the call's own goes with it
HolderDiscard(s) ==
    /\ frames[s].pc = "done"
    /\ frames' = [frames EXCEPT ![s] = NoFrame]
    /\ cells' = [cells EXCEPT ![LineLabelsCell(s)] = <<>>]
    /\ UNCHANGED <<allClassData, call, locals, result, tables, page>>

NextFresh ==
    \E s \in Slots :
        \/ FreshRadarCall(s)
        \/ FreshLineCall(s)
        \/ LabelsPop(s)
        \/ HolderDiscard(s)

SpecFresh == InitFresh /\ [][NextFresh]_vars

(***************************************************************************)
(* The loop of createLevelArray pass by pass.  A bound is any value a      *)
(* caller can pass: a number, NaN, an infinity, or undefined when the      *)
(* argument is left out, as in the call made when the file is loaded.      *)
(* JavaScript runs a call to its end before anything else, so a pass that  *)
(* can be taken is taken.                                                  *)
(***************************************************************************)
Undefined == [kind |-> "undefined", n |-> 0, d |-> 0]

\* ToNumber of the operands of <= and +
ToNumber(v) == IF v.kind = "undefined" THEN NaN ELSE v

\* a <= b
JsLessEq(a, b) ==
    LET x == ToNumber(a)
        y == ToNumber(b)
    IN  CASE x.kind = "NaN" \/ y.kind = "NaN" -> FALSE
          [] x.kind = "-Infinity" -> TRUE
          [] y.kind = "Infinity" -> TRUE
          [] x.kind = "Infinity" -> FALSE
          [] y.kind = "-Infinity" -> FALSE
          [] OTHER -> x.n * y.d <= y.n * x.d

\* i stays what it was
LoopAdvanceNone(i) == i

\* i = i+5
LoopAdvance(i) ==
    LET x == ToNumber(i)
    IN  IF x.kind = "num" THEN Frac(x.n + Step * x.d, x.d) ELSE x

\* levelArray.push(i); of an array that never stops growing the model keeps
\* the first MaxPasses + 1 elements
LoopPush(levelArray, i) ==
    IF Len(levelArray) <= MaxPasses THEN Append(levelArray, i) ELSE levelArray

\* the parity of the elements pushed past the ones kept: 1 even, 2 odd
LoopParity(levelArray, j) ==
    IF Len(levelArray) <= MaxPasses THEN j ELSE 3 - j

LoopSlot == 1
LoopNumbers == {Frac(n, 1) : n \in (0 - 1)..(MaxPasses * Step)}
LoopInputs == LoopNumbers \cup {NaN, PosInfinity, NegInfinity}

\* part_000 lines 36-38: levelArray = [], i = lower.  A finite lower bound
\* under an infinite upper one is left out: its passes run through every
\* multiple of 5 a double can hold.
LevelArrayEnter ==
    /\ frames[LoopSlot].pc = "idle"
    /\ \E lower \in LoopInputs, upper \in LoopInputs :
        /\ ~(lower.kind = "num" /\ upper.kind = "Infinity")
        /\ frames' = [frames EXCEPT ![LoopSlot] =
                [NoFrame EXCEPT !.pc = "loop",
                                !.call = [NoCall EXCEPT !.fn = "createLevelArray"],
                                !.startLevel = lower,
                                !.endLevel = upper,
                                !.i = lower,
                                !.scaleLabels = <<>>]]
    /\ UNCHANGED <<allClassData, call, locals, result, tables, cells, page>>

\* part_000 line 83: createLevelArray() as the file is loaded
LevelArrayLoad ==
    /\ frames[LoopSlot].pc = "idle"
    /\ frames' = [frames EXCEPT ![LoopSlot] =
            [NoFrame EXCEPT !.pc = "loop",
                            !.call = [NoCall EXCEPT !.fn = "createLevelArray"],
                            !.startLevel = Undefined,
                            !.endLevel = Undefined,
                            !.i = Undefined,
                            !.scaleLabels = <<>>]]
    /\ UNCHANGED <<allClassData, call, locals, result, tables, cells, page>>

\* part_000 lines 38-40: the test holds, one pass
LevelArrayStep ==
    LET f == frames[LoopSlot]
    IN  /\ f.pc = "loop"
        /\ f.call.fn = "createLevelArray"
        /\ JsLessEq(f.i, f.endLevel)
        /\ frames' = [frames EXCEPT
                ![LoopSlot].scaleLabels = LoopPush(f.scaleLabels, f.i),
                ![LoopSlot].j = LoopParity(f.scaleLabels, f.j),
                ![LoopSlot].i = LoopAdvance(f.i)]
        /\ UNCHANGED <<allClassData, call, locals, result, tables, cells, page>>

\* part_000 lines 38 and 41: the test fails, return levelArray
LevelArrayReturn ==
    LET f == frames[LoopSlot]
    IN  /\ f.pc = "loop"
        /\ f.call.fn = "createLevelArray"
        /\ ~JsLessEq(f.i, f.endLevel)
        /\ frames' = [frames EXCEPT
                ![LoopSlot].pc = "done",
                ![LoopSlot].out = [NoResult EXCEPT !.status = "ok",
                                                   !.chart = f.scaleLabels]]
        /\ UNCHANGED <<allClassData, call, locals, result, tables, cells, page>>

NextLoop ==
    \/ LevelArrayEnter
    \/ LevelArrayLoad
    \/ LevelArrayStep
    \/ LevelArrayReturn
    \/ FrameDiscard(LoopSlot)

SpecLoop == InitSteps /\ [][NextLoop]_vars

FairLoop ==
    SpecLoop /\ WF_vars(LevelArrayStep) /\ WF_vars(LevelArrayReturn)

(***************************************************************************)
(* What the claims speak of                                                *)
(***************************************************************************)
Range(q) == {q[i] : i \in 1..Len(q)}
SetMax(S) == CHOOSE m \in S : \A x \in S : x <= m

IsLine == call.fn = "line"
IsRadar == call.fn = "radar"
Returned == result.status = "ok"
Threw(e) == result.status = "error" /\ result.error = e

\* the classes of the dataset passed in
DataClasses == {allClassData[i].name : i \in 1..Len(allClassData)}
TableOf(c) == allClassData[CHOOSE i \in 1..Len(allClassData) : allClassData[i].name = c]
HasLevel(c, l) == \E i \in 1..Len(TableOf(c).levelData) : TableOf(c).levelData[i].level = l
\* the value of stat s of class c at level l, read off the dataset
ValueAt(c, s, l) ==
    LET data == TableOf(c).levelData
    IN  data[CHOOSE i \in 1..Len(data) : data[i].level = l].stats[s]

Labels == result.chart.data.labels
DataSetsOut == result.chart.data.datasets
\* the class and the stat a line dataset is labelled with
LabelClass(d) == d.label[1]
LabelStat(d) == d.label[3]

\* C1 (as claimed).  For every integer pair start <= end given to
\* assembleLineGraphObject, also below 5 or above 200, the bounds after
\* clamping and rounding satisfy 5 <= start' <= end' <= 200 and both are
\* multiples of 5.
RangeInBounds ==
    /\ MinLevel <= locals.startLevel
    /\ locals.startLevel <= locals.endLevel
    /\ locals.endLevel <= MaxLevel
    /\ locals.startLevel % Step = 0
    /\ locals.endLevel % Step = 0
C1_AnyOrderedPair ==
    (IsLine /\ call.startLevel <= call.endLevel) => RangeInBounds

\* C1 (amended).  For every integer pair start <= end with start <= 200 and
\* end >= 1 (start below 5 and end above 200 are silently clamped), the
\* bounds after clamping and rounding satisfy 5 <= start' <= end' <= 200 and
\* both are multiples of 5.
C1_ClampedRange ==
    (IsLine /\ call.startLevel <= call.endLevel
            /\ call.startLevel <= MaxLevel /\ call.endLevel >= 1)
        => RangeInBounds
\* a call whose start is raised to 5 and whose end is lowered to 200
C1_Witness ==
    /\ IsLine
    /\ call.startLevel < MinLevel /\ call.endLevel > MaxLevel
    /\ locals.startLevel = MinLevel /\ locals.endLevel = MaxLevel

\* C2.  In every dataset assembleLineGraphObject returns, data is as long as
\* labels, labels ascend, and data[k] is the value of the dataset's stat for
\* the dataset's class at level labels[k].
C2_DataAlignedWithLabels ==
    (IsLine /\ Returned) =>
        /\ \A k \in 1..(Len(Labels) - 1) : Labels[k] < Labels[k + 1]
        /\ \A n \in 1..Len(DataSetsOut) :
            LET d == DataSetsOut[n]
            IN  /\ Len(d.data) = Len(Labels)
                /\ \A k \in 1..Len(Labels) :
                    /\ HasLevel(LabelClass(d), Labels[k])
                    /\ d.data[k] = ValueAt(LabelClass(d), LabelStat(d), Labels[k])
\* a returned chart over many levels whose first dataset grows with the level
C2_Witness ==
    /\ IsLine /\ Returned
    /\ Len(DataSetsOut) >= 2
    /\ Len(Labels) >= 3
    /\ DataSetsOut[1].data[1] < DataSetsOut[1].data[2]
    /\ DataSetsOut[1].data # DataSetsOut[2].data

\* C3.  assembleLineGraphObject returns |selectedClasses| * |selectedStats|
\* datasets, classes in the outer loop and stats in the inner one: the dataset
\* at index i * |selectedStats| + j (from 0) is that of (selectedClasses[i],
\* selectedStats[j]).
C3_DataSetOrder ==
    (IsLine /\ Returned) =>
        LET nc == Len(call.selectedClasses)
            ns == Len(call.selectedStats)
        IN  /\ Len(DataSetsOut) = nc * ns
            /\ \A i \in 1..nc, j \in 1..ns :
                LET d == DataSetsOut[(i - 1) * ns + j]
                IN  /\ d.label = DataLabel(call.selectedClasses[i],
                                           call.selectedStats[j])
                    /\ \A k \in 1..Len(d.data) :
                        d.data[k] = ValueAt(call.selectedClasses[i],
                                            call.selectedStats[j], Labels[k])
\* two classes and two stats: four datasets over a range that is not empty
C3_Witness ==
    /\ IsLine /\ Returned
    /\ Len(call.selectedClasses) = 2 /\ Len(call.selectedStats) = 2
    /\ Len(DataSetsOut) = 4
    /\ Len(Labels) >= 2

\* the largest value of stat s at the level of the radar call, over every
\* class of the dataset
CrossClassMaximum(s) ==
    SetMax({ValueAt(c, s, NearestLevel(call.selectedLevel)) : c \in DataClasses})

\* C4.  Radar: when the cross-class maximum of a stat at the selected level is
\* 0 the percentage of that stat is 0 for every selected class, and no
\* percentage of a returned dataset is NaN or Infinity.
C4_ZeroGuard ==
    (IsRadar /\ Returned) =>
        \A n \in 1..Len(DataSetsOut), k \in 1..Len(call.statNames) :
            /\ IsFinite(DataSetsOut[n].data[k])
            /\ CrossClassMaximum(call.statNames[k]) = 0
                => DataSetsOut[n].data[k] = Frac(0, 1)

\* C5.  Radar: every percentage lies in 0..100, and is exactly 100 for a class
\* whose value equals the cross-class maximum of the stat at the level.
C5_PercentageRange ==
    (IsRadar /\ Returned) =>
        \A n \in 1..Len(DataSetsOut), k \in 1..Len(call.statNames) :
            /\ Between(DataSetsOut[n].data[k], 0, Hundred)
            /\ ValueAt(DataSetsOut[n].label, call.statNames[k],
                       NearestLevel(call.selectedLevel))
                    = CrossClassMaximum(call.statNames[k])
                => DataSetsOut[n].data[k] = Frac(Hundred, 1)

\* C6.  The denominator the radar assembler divides a stat by is the maximum of
\* that stat at the selected level over all classes of the dataset passed in,
\* not over the selected classes.
C6_MaximumOverAllClasses ==
    (IsRadar /\ locals.maximumComputed) =>
        \A k \in 1..Len(call.statNames) :
            locals.maximumStatsObject[call.statNames[k]]
                = CrossClassMaximum(call.statNames[k])
\* the maximum of a stat is held by a class that is not selected
C6_Witness ==
    /\ IsRadar /\ locals.maximumComputed /\ Returned
    /\ \E k \in 1..Len(call.statNames) :
        /\ locals.maximumStatsObject[call.statNames[k]] > 0
        /\ \A i \in 1..Len(call.selectedClasses) :
            ValueAt(call.selectedClasses[i], call.statNames[k],
                    NearestLevel(call.selectedLevel))
                < locals.maximumStatsObject[call.statNames[k]]

\* the data vector of class c in the radar chart r
RadarDataOf(r, c) ==
    r.chart.data.datasets[CHOOSE n \in 1..Len(r.chart.data.datasets) :
                            r.chart.data.datasets[n].label = c].data

\* C7.  The radar dataset of a class does not depend on the rest of the
\* selection: a second call with the same dataset, level and statNames and
\* another selection holding the class returns the same data vector for it.
C7_SelectionIndependent ==
    (IsRadar /\ Returned) =>
        \A other \in ClassSelections :
            LET second == assembleRadarChartObject(other, allClassData,
                              allCharacterColors, call.selectedLevel,
                              call.statNames)
            IN  second.status = "ok" =>
                    \A c \in Range(call.selectedClasses) \cap Range(other) :
                        RadarDataOf(result, c) = RadarDataOf(second, c)
\* a class selected alone whose percentage is below 100: another class, not
\* selected, holds the maximum
C7_Witness ==
    /\ IsRadar /\ Returned
    /\ Len(call.selectedClasses) = 1
    /\ \E k \in 1..Len(call.statNames) :
        /\ IsFinite(DataSetsOut[1].data[k])
        /\ DataSetsOut[1].data[k] # Frac(Hundred, 1)
        /\ DataSetsOut[1].data[k] # Frac(0, 1)

SelectsUnknownClass ==
    \E i \in 1..Len(call.selectedClasses) : call.selectedClasses[i] \notin DataClasses

\* C8 (as claimed).  When a selected class identifier has no entry in the
\* dataset, assembleLineGraphObject and assembleRadarChartObject each raise
\* NotFoundError and return no ChartSpec.
C8_UnknownClassAlwaysThrows ==
    ((IsLine \/ IsRadar) /\ SelectsUnknownClass) => Threw(NotFoundError)

\* C8 (amended).  When a selected class identifier has no entry in the
\* dataset, assembleRadarChartObject raises NotFoundError, and so does
\* assembleLineGraphObject when selectedStats is not empty; neither returns
\* a ChartSpec then.  With an empty selectedStats assembleLineGraphObject
\* looks no class up and returns a ChartSpec with zero datasets.
C8_UnknownClassThrows ==
    /\ (IsRadar /\ SelectsUnknownClass) => Threw(NotFoundError)
    /\ (IsLine /\ SelectsUnknownClass /\ Len(call.selectedStats) > 0)
            => Threw(NotFoundError)
    /\ (IsLine /\ SelectsUnknownClass /\ Len(call.selectedStats) = 0)
            => (Returned /\ DataSetsOut = <<>>)
\* the unknown class comes second: the first class's datasets are built when
\* the lookup throws, and none is returned
C8_Witness ==
    /\ IsLine
    /\ Len(call.selectedClasses) = 2
    /\ call.selectedClasses[1] \in DataClasses
    /\ call.selectedClasses[2] \notin DataClasses
    /\ Len(call.selectedStats) > 0
    /\ Threw(NotFoundError)

\* the levels of the labels that the table of class c, filtered to the range,
\* has no entry for
MissingLevels(c) ==
    {l \in Range(createLevelArray(locals.startLevel, locals.endLevel)) :
        ~HasLevel(c, l)}

\* C9.  If a level of the computed labels has no entry in the selected
\* class's table filtered to the range, assembleLineGraphObject fails with
\* RangeMismatchError; it never returns a dataset whose data is shorter than
\* labels or shifted against labels.
C9_FailsOnRangeMismatch ==
    (IsLine /\ Len(call.selectedStats) > 0
            /\ Range(call.selectedClasses) \subseteq DataClasses
            /\ (\E c \in Range(call.selectedClasses) : MissingLevels(c) # {}))
        => Threw("RangeMismatchError")

\* the level sequence start, start + Step, ... up to end
IsLevelSequence(q, start, end) ==
    /\ Len(q) = IF start > end THEN 0 ELSE (end - start) \div Step + 1
    /\ \A k \in 1..Len(q) : q[k] = start + Step * (k - 1)

\* C10.  assembleLineGraphObject called with an empty selectedClasses or an
\* empty selectedStats returns a ChartSpec with zero datasets, labels the
\* level sequence of the clamped range, and raises no error.
C10_EmptySelection ==
    (IsLine /\ (call.selectedClasses = <<>> \/ call.selectedStats = <<>>)) =>
        /\ Returned
        /\ DataSetsOut = <<>>
        /\ IsLevelSequence(Labels, locals.startLevel, locals.endLevel)
\* classes selected, none of the stats: a chart with labels and no dataset
C10_Witness ==
    /\ IsLine /\ Returned
    /\ call.selectedClasses # <<>> /\ call.selectedStats = <<>>
    /\ DataSetsOut = <<>>
    /\ Len(Labels) >= 2

\* C11 (as claimed).  When the clamped and rounded bounds satisfy
\* start' > end', assembleLineGraphObject does not fail: labels is empty and
\* the data of every dataset is empty.
EmptyRangeChart ==
    /\ Returned
    /\ Labels = <<>>
    /\ \A n \in 1..Len(DataSetsOut) : DataSetsOut[n].data = <<>>
IsValidBound(l) == MinLevel <= l /\ l <= MaxLevel /\ l % Step = 0

\* C12.  Clamping and rounding leave a valid bound unchanged: for start and
\* end multiples of 5 within 5..200 the bounds assembleLineGraphObject uses
\* equal the bounds passed in, so clamping and rounding them again changes
\* nothing.
C12_ValidBoundsUnchanged ==
    (IsLine /\ IsValidBound(call.startLevel) /\ IsValidBound(call.endLevel)) =>
        /\ locals.startLevel = call.startLevel
        /\ locals.endLevel = call.endLevel
        /\ LevelRange(locals.startLevel, locals.endLevel)
            = [startLevel |-> locals.startLevel, endLevel |-> locals.endLevel]
\* the range 25..40 of the spec's example
C12_Witness ==
    /\ IsLine /\ Returned
    /\ call.startLevel = 25 /\ call.endLevel = 40
    /\ Labels = <<25, 30, 35, 40>>

IsLevelArrayCall == call.fn = "createLevelArray"

\* C13.  createLevelArray(lower, upper) returns the ascending sequence lower,
\* lower + 5, lower + 10, ... of all such values not exceeding upper: with
\* lower <= upper it has floor((upper - lower) / 5) + 1 elements, with
\* lower > upper it is empty.
C13_LevelSequence ==
    IsLevelArrayCall =>
        LET lower == call.startLevel
            upper == call.endLevel
            q == result.chart
        IN  /\ Len(q) = IF lower <= upper THEN (upper - lower) \div Step + 1 ELSE 0
            /\ \A k \in 1..Len(q) : q[k] = lower + Step * (k - 1)
            /\ Range(q) = {l \in lower..upper : (l - lower) % Step = 0}
\* createLevelArray(25, 40) = 25, 30, 35, 40
C13_Witness ==
    /\ IsLevelArrayCall
    /\ call.startLevel = 25 /\ call.endLevel = 40
    /\ result.chart = <<25, 30, 35, 40>>

\* what a call returns when it runs alone, from start to end, over the
\* static dataset and color tables
AloneOutcome(c) ==
    IF c.fn = "line"
    THEN Outcome(assembleLineGraphObject(c.selectedClasses, c.selectedStats,
                    Title, allClassData, allStatColors,
                    c.startLevel, c.endLevel))
    ELSE Outcome(assembleRadarChartObject(c.selectedClasses, allClassData,
                    allCharacterColors, c.selectedLevel, c.statNames))

FrameDone(s) == frames[s].pc = "done"

\* C14.  Two calls of the same assembler with identical inputs, the dataset
\* unmodified, end in structurally identical outcomes: the same ChartSpec
\* (type, labels, datasets in the same order, title) or the same error.
C14_SameInputsSameChart ==
    (FrameDone(1) /\ FrameDone(2) /\ frames[1].call = frames[2].call)
        => frames[1].out = frames[2].out
C14_Witness ==
    /\ FrameDone(1) /\ FrameDone(2)
    /\ frames[1].call = frames[2].call
    /\ frames[1].call.fn = "line"
    /\ frames[1].out.status = "ok"
    /\ Len(frames[1].out.chart.data.datasets) >= 2
    /\ frames[2].out = frames[1].out

\* C15.  No step of an assembler call modifies an input: the dataset, the
\* color tables and, while the call lasts and after it has returned, the
\* selection arrays and statNames keep their contents.
C15_InputsUnmodified ==
    [][/\ allClassData' = allClassData
       /\ tables' = tables
       /\ \A s \in Slots :
            (frames[s].pc # "idle" /\ frames'[s].pc # "idle")
                => frames'[s].args = frames[s].args]_vars
\* a line call that has pushed datasets and returned, its arrays as passed
C15_Witness ==
    \E s \in Slots :
        /\ FrameDone(s)
        /\ frames[s].call.fn = "line"
        /\ frames[s].out.status = "ok"
        /\ Len(frames[s].out.chart.data.datasets) >= 2
        /\ frames[s].args.selectedClasses = frames[s].call.selectedClasses
        /\ frames[s].args.selectedStats = frames[s].call.selectedStats
        /\ Len(frames[s].args.selectedStats) >= 2

\* C16.  Whatever the interleaving of the steps of two assembly calls, each
\* call ends in the outcome it has when run alone.
C16_InterleavingIndependent ==
    \A s \in Slots : FrameDone(s) => frames[s].out = AloneOutcome(frames[s].call)
\* a line call and a radar call, both returned with datasets, the radar call
\* having started while the line call was under way or the reverse
C16_Witness ==
    /\ FrameDone(1) /\ FrameDone(2)
    /\ frames[1].call.fn = "line" /\ frames[2].call.fn = "radar"
    /\ frames[1].out.status = "ok" /\ frames[2].out.status = "ok"
    /\ Len(frames[1].out.chart.data.datasets) >= 2
    /\ Len(frames[2].out.chart.data.datasets) >= 2

\* C17.  Whatever the level box holds (a number below 5, above 200, in
\* range, or no number), the level radarChartClick passes to
\* assembleRadarChartObject lies within 5..200.
C17_PassedLevelInBounds ==
    IsRadar => (MinLevel <= call.selectedLevel /\ call.selectedLevel <= MaxLevel)

\* the base colour of class c, read off the colour table
BaseColorOf(c) ==
    (CHOOSE e \in Range(allCharacterColors) : e.name = c).color

\* C18.  A radar chart holds exactly one dataset per selected class, in
\* selection order: its label is the class identifier, fill is true, and its
\* colours are the class's base RGB with alpha 0.5 (background), 0.75
\* (border) and 1 (points).
C18_RadarDataSetPerClass ==
    (IsRadar /\ Returned) =>
        /\ Len(DataSetsOut) = Len(call.selectedClasses)
        /\ \A n \in 1..Len(DataSetsOut) :
            LET d == DataSetsOut[n]
                rgb == BaseColorOf(call.selectedClasses[n])
            IN  /\ d.label = call.selectedClasses[n]
                /\ d.fill = TRUE
                /\ d.backgroundColor = <<"rgba", rgb.red, rgb.green, rgb.blue, "0.5">>
                /\ d.borderColor = <<"rgba", rgb.red, rgb.green, rgb.blue, "0.75">>
                /\ d.pointBorderColor = <<"rgba", rgb.red, rgb.green, rgb.blue, "1">>
                /\ d.pointBackgroundColor = <<"rgba", rgb.red, rgb.green, rgb.blue, "1">>
\* two classes selected in the reverse of their order in the dataset
C18_Witness ==
    /\ IsRadar /\ Returned
    /\ call.selectedClasses = <<ClassNames[2], ClassNames[1]>>
    /\ Len(DataSetsOut) = 2
    /\ DataSetsOut[1].label = ClassNames[2]
    /\ DataSetsOut[1].backgroundColor # DataSetsOut[2].backgroundColor

\* C19.  The data vector of a radar dataset has one entry per name of
\* statNames, in the order of statNames: entry k is 100 * value / max, value
\* the class's stat at the selected level and max the cross-class maximum of
\* that stat at the level (a quotient by 0 being what JavaScript makes it).
C19_PercentageVector ==
    (IsRadar /\ Returned) =>
        \A n \in 1..Len(DataSetsOut) :
            /\ Len(DataSetsOut[n].data) = Len(call.statNames)
            /\ \A k \in 1..Len(call.statNames) :
                DataSetsOut[n].data[k] =
                    JsDivide(Hundred * ValueAt(DataSetsOut[n].label,
                                               call.statNames[k],
                                               NearestLevel(call.selectedLevel)),
                             CrossClassMaximum(call.statNames[k]))
\* a vector of two different finite percentages, neither 0
C19_Witness ==
    /\ IsRadar /\ Returned
    /\ Len(call.statNames) = 2
    /\ Len(DataSetsOut) >= 1
    /\ IsFinite(DataSetsOut[1].data[1]) /\ IsFinite(DataSetsOut[1].data[2])
    /\ DataSetsOut[1].data[1] # DataSetsOut[1].data[2]
    /\ DataSetsOut[1].data[1] # Frac(0, 1)
    /\ DataSetsOut[1].data[2] # Frac(0, 1)

\* C20.  A radar ChartSpec has type "radar", labels equal to statNames, and a
\* display scale from 0 to 100 in steps of 10.
C20_RadarChartShape ==
    (IsRadar /\ Returned) =>
        /\ result.chart.type = "radar"
        /\ Labels = call.statNames
        /\ result.chart.options.scale.ticks.min = 0
        /\ result.chart.options.scale.ticks.max = 100
        /\ result.chart.options.scale.ticks.stepSize = 10
\* a radar chart of the seven stats with a dataset
C20_Witness ==
    /\ IsRadar /\ Returned
    /\ Len(call.statNames) = 7
    /\ Labels = call.statNames
    /\ Len(DataSetsOut) >= 1
    /\ result.chart.type = "radar"

\* C21.  The colour modifier the line assembler computes for the class at
\* index i (from 0) of n selected classes is i * 100 / n: 0 for the first
\* class, below 100, the same for every stat of a class, and greater for a
\* class than for the class before it.
C21_ColorModifier ==
    [][\A s \in Slots :
        LET f == frames[s]
            g == frames'[s]
            n == Len(g.args.selectedClasses)
        IN  (g.call.fn = "line" /\ g.pc = "loop" /\ g.j > 1) =>
                /\ g.modifier.kind = "num"
                /\ g.modifier.n * n = (g.i - 1) * 100 * g.modifier.d
                /\ g.i = 1 => g.modifier.n = 0
                /\ g.modifier.n < 100 * g.modifier.d
                /\ (f.pc = "loop" /\ f.i = g.i /\ f.j > 1)
                    => g.modifier = f.modifier
                /\ (f.pc = "loop" /\ f.i = g.i /\ f.j = 1 /\ f.i > 1)
                    => f.modifier.n * g.modifier.d < g.modifier.n * f.modifier.d
      ]_vars
\* the second of two classes, its second stat done: the modifier is 50
C21_Witness ==
    \E s \in Slots :
        /\ frames[s].call.fn = "line" /\ frames[s].pc = "loop"
        /\ Len(frames[s].args.selectedClasses) = 2
        /\ frames[s].i = 2 /\ frames[s].j = 3
        /\ frames[s].modifier = Frac(50, 1)

\* C22.  The line dataset of the pair (class, stat) has the label
\* "<class>(<stat>)", and its colours are the RGB resolved for the stat and
\* the class's modifier with alpha 0.5 (background), 0.75 (border) and 1
\* (point border and point background).
C22_LineDataSetLabelAndColors ==
    (IsLine /\ Returned) =>
        LET nc == Len(call.selectedClasses)
            ns == Len(call.selectedStats)
        IN  \A i \in 1..nc, j \in 1..ns :
                LET d == DataSetsOut[(i - 1) * ns + j]
                    rgb == getStatColor(call.selectedStats[j], allStatColors,
                                        Frac((i - 1) * 100, nc))
                IN  /\ d.label = <<call.selectedClasses[i], "(",
                                   call.selectedStats[j], ")">>
                    /\ d.backgroundColor = <<"rgba", rgb.red, rgb.green, rgb.blue, "0.5">>
                    /\ d.borderColor = <<"rgba", rgb.red, rgb.green, rgb.blue, "0.75">>
                    /\ d.pointBorderColor = <<"rgba", rgb.red, rgb.green, rgb.blue, "1">>
                    /\ d.pointBackgroundColor = <<"rgba", rgb.red, rgb.green, rgb.blue, "1">>
\* two classes with the same stat: the same label suffix, different colours
C22_Witness ==
    /\ IsLine /\ Returned
    /\ Len(call.selectedClasses) = 2 /\ Len(call.selectedStats) = 2
    /\ DataSetsOut[1].label = <<call.selectedClasses[1], "(", call.selectedStats[1], ")">>
    /\ DataSetsOut[3].label = <<call.selectedClasses[2], "(", call.selectedStats[1], ")">>
    /\ DataSetsOut[1].borderColor # DataSetsOut[3].borderColor
    /\ DataSetsOut[1].borderColor # DataSetsOut[1].backgroundColor

\* C23.  The line ChartSpec has type "line" and carries its parts where the
\* radar ChartSpec does: labels and datasets under data, the caller's title
\* under the chart-level options.title.text, and no options inside data.
C23_LineChartShape ==
    (IsLine /\ Returned) =>
        /\ result.chart.type = "line"
        /\ DOMAIN result.chart = {"type", "data", "options"}
        /\ DOMAIN result.chart.data = {"labels", "datasets"}
        /\ result.chart.options.title.text = Title

\* holder s has a ChartSpec
Holds(s) == frames[s].pc = "done" /\ frames[s].out.status = "ok"

\* C24: every ChartSpec is produced fresh: the array its data.labels is, is
\* neither a static input of the call (the statNames array) nor the array of
\* another returned ChartSpec, so the statNames array stays as its owner made
\* it whatever the holders of ChartSpecs do to theirs.
C24_ChartSpecFresh ==
    /\ \A s \in Slots : Holds(s) => frames[s].labelsCell # StatNamesCell
    /\ \A s, t \in Slots :
        Holds(s) /\ Holds(t) /\ s # t
            => frames[s].labelsCell # frames[t].labelsCell
    /\ cells[StatNamesCell] = FreshStatNames

\* the controls of the page; a click changes none of them, every other action
\* of the page changes one
InputsOf(p) == <<p.tbLevel, p.tbStart, p.tbEnd, p.checked, p.checkedStats>>
IsClick == InputsOf(page') = InputsOf(page)

\* C25.  Whatever clicks a controller has handled, at most one chart instance
\* it created is not destroyed, and that one is the instance its handle holds:
\* an instance is destroyed before the next is constructed.
C25_AtMostOneChart ==
    /\ page.undestroyed <= 1
    /\ page.undestroyed = 1 => (page.chart.made /\ page.chart.alive)
\* a chart built by a click and destroyed by the next, which failed validation
C25_Witness ==
    /\ page.chart.made /\ ~page.chart.alive
    /\ page.chart.destroys = 1
    /\ page.undestroyed = 0
    /\ page.errorShown

\* C26.  destroy() is invoked at most once on each chart instance.
C26_DestroyedAtMostOnce == page.chart.destroys <= 1

\* C27.  A click on the line page calls assembleLineGraphObject only when both
\* boxes parse to numbers and a class and a stat are checked; the range it
\* passes satisfies 5 <= start < end <= 200, and the labels assembled are not
\* empty.
C27_LineCallValidated ==
    [][(IsClick /\ page'.kind = "line" /\ call'.fn = "line") =>
            /\ ~isNaN(parseInt(page.tbStart))
            /\ ~isNaN(parseInt(page.tbEnd))
            /\ page.checked # {}
            /\ page.checkedStats # {}
            /\ MinLevel <= call'.startLevel
            /\ call'.startLevel < call'.endLevel
            /\ call'.endLevel <= MaxLevel
            /\ result'.status = "ok"
            /\ result'.chart.data.labels # <<>>
      ]_vars
\* start typed below 5 and end typed above 200: the range passed is 5..200
C27_Witness ==
    /\ page.kind = "line" /\ IsLine /\ Returned
    /\ parseInt(page.tbStart).n < MinLevel
    /\ parseInt(page.tbEnd).n > MaxLevel
    /\ call.startLevel = MinLevel /\ call.endLevel = MaxLevel
    /\ Len(Labels) >= 2

ShowsChart(p) ==
    /\ p.chart.made /\ p.chart.alive /\ p.chart.destroys = 0
    /\ ~p.errorShown /\ p.errorDivs = <<>>
ShowsError(p) ==
    /\ p.errorShown /\ p.errorDivs # <<>>
    /\ p.undestroyed = 0

\* C28.  After every click of either controller exactly one outcome holds: a
\* new chart is built and the error panel is hidden and empty, or the error
\* panel is shown with a message and the controller has no undestroyed chart.
C28_ChartOrError ==
    [][IsClick =>
            /\ ShowsChart(page') \/ ShowsError(page')
            /\ ~(ShowsChart(page') /\ ShowsError(page'))
            /\ ~(page'.undestroyed > 0 /\ page'.errorShown)
      ]_vars
\* a click that failed validation after a click that built a chart
C28_Witness ==
    /\ page.kind = "radar"
    /\ page.errorShown /\ page.errorDivs # <<>>
    /\ page.chart.made /\ ~page.chart.alive
    /\ page.undestroyed = 0

\* the messages a click on page p must show, check by check
ExpectedMessages(p) ==
    IF p.kind = "radar"
    THEN IF p.checked = {} THEN <<NoClassMessage>> ELSE <<>>
    ELSE LET start == parseInt(p.tbStart)
             end == parseInt(p.tbEnd)
             low == IF start.n < MinLevel THEN MinLevel ELSE start.n
             high == IF end.n > MaxLevel THEN MaxLevel ELSE end.n
         IN  (IF isNaN(start) THEN <<StartMessage>> ELSE <<>>)
             \o (IF isNaN(end) THEN <<EndMessage>> ELSE <<>>)
             \o (IF p.checked = {} THEN <<NoClassMessage>> ELSE <<>>)
             \o (IF p.checkedStats = {} THEN <<NoStatMessage>> ELSE <<>>)
             \o (IF ~isNaN(start) /\ ~isNaN(end) /\ low >= high
                 THEN <<OrderMessage>> ELSE <<>>)

\* C29.  The error panel after a click holds exactly one <div> per check that
\* failed in that click, in the order of the checks, and nothing an earlier
\* click showed.
C29_MessagesOfThisClick ==
    [][IsClick =>
            /\ Len(page'.errorDivs) = 3 * Len(ExpectedMessages(page))
            /\ \A k \in 1..Len(ExpectedMessages(page)) :
                /\ page'.errorDivs[3 * k - 2] = "<div>"
                /\ page'.errorDivs[3 * k - 1] = ExpectedMessages(page)[k]
                /\ page'.errorDivs[3 * k] = "</div>"
            /\ page'.errorShown = (ExpectedMessages(page) # <<>>)
      ]_vars
\* four checks of the line page failed at once
C29_Witness ==
    /\ page.kind = "line"
    /\ page.errorShown
    /\ page.errorDivs = <<"<div>", StartMessage, "</div>",
                          "<div>", EndMessage, "</div>",
                          "<div>", NoClassMessage, "</div>",
                          "<div>", NoStatMessage, "</div>">>

\* the loop of createLevelArray is running, has returned
InLoop == frames[LoopSlot].pc = "loop"
LoopDone == frames[LoopSlot].pc = "done"
\* the bounds of the call: both left out, neither one infinite
NoBounds ==
    /\ frames[LoopSlot].startLevel = Undefined
    /\ frames[LoopSlot].endLevel = Undefined
NoInfiniteBound ==
    /\ frames[LoopSlot].startLevel.kind \notin {"Infinity", "-Infinity"}
    /\ frames[LoopSlot].endLevel.kind \notin {"Infinity", "-Infinity"}
\* everything but the activation is as it was before the first call
NothingElseChanged ==
    /\ allClassData = DataSetOf(FullMult, TableLevels)
    /\ tables = StaticTables
    /\ call = NoCall /\ locals = NoLocals /\ result = NoResult
    /\ cells = [s \in Slots |-> <<>>]
    /\ page = NoPage

====
